---------------------------- MODULE Spec2Model ----------------------------
(***************************************************************************)
(* A model of sizegraph: the directory scanner and size aggregation of     *)
(* src/sizegraph.py (a Tk application that drains a queue of directories   *)
(* from timer callbacks) and of src/sizegraphv2.py (a recursive scan), and *)
(* the treemap layouts of both.                                            *)
(*                                                                         *)
(* Specification Spec is the scanning state machine.  Its state is the     *)
(* state of the SizeGraph object plus the part of the Tk event loop the    *)
(* code relies on: the callbacks scheduled with after(), and the           *)
(* process_scan_queue calls that are suspended inside                      *)
(* progress_window.update(), which runs a nested event loop.               *)
(***************************************************************************)
EXTENDS Integers, Sequences, FiniteSets, TLC

(***************************************************************************)
(* Bounds of the model.                                                    *)
(***************************************************************************)
\* start_scan runs at most MaxScans times (the first scan and the re-scans).
MaxScans == 2
\* At most MaxNest process_scan_queue calls are suspended in update() at once.
MaxNest == 2

(***************************************************************************)
(* The filesystem the scanners read.  A path is the sequence of its        *)
(* components, a component a number.                                       *)
(*                                                                         *)
(*   DirA/  a1 (10 bytes)  a2 (20 bytes)  DirU/ (listing fails)            *)
(*          e1 (is_file() and stat() raise OSError)   DirB/                *)
(*   DirB/  FilesInB files of 1 byte each, then DirC/                      *)
(*   DirC/  c1 (5 bytes)  s1 (a socket: neither file nor directory)        *)
(*   DirP/  p1 (10 bytes)  p2 (20 bytes)  DirQ/ (listing fails)            *)
(*   Missing: a path that does not exist                                   *)
(***************************************************************************)
\* DirB holds this many files; the progress window is updated every
\* ProgressEvery files, so a listing of DirB is suspended in update().
FilesInB == 100

DirA == <<1>>
FileA1 == <<1, 1>>
FileA2 == <<1, 2>>
DirU == <<1, 3>>
ErrE1 == <<1, 4>>
DirB == <<1, 5>>
FilesOfB == [i \in 1..FilesInB |-> DirB \o <<i>>]
DirC == DirB \o <<0>>
FileC1 == DirC \o <<1>>
SockS1 == DirC \o <<2>>
DirP == <<2>>
FileP1 == <<2, 1>>
FileP2 == <<2, 2>>
DirQ == <<2, 3>>
Missing == <<3>>
DirZ == <<4>>
FileZ1 == <<4, 1>>

\* What a directory lists, in the order the operating system gives it.
Listing(p) ==
    CASE p = DirA -> <<FileA1, FileA2, DirU, ErrE1, DirB>>
      [] p = DirB -> FilesOfB \o <<DirC>>
      [] p = DirC -> <<FileC1, SockS1>>
      [] p = DirP -> <<FileP1, FileP2, DirQ>>
      [] p = DirZ -> <<FileZ1>>
      [] OTHER -> <<>>

\* Directories whose listing raises PermissionError, and entries that raise
\* OSError when they are classified or stat'ed.
Unreadable == {DirU, DirQ}
Failing == {ErrE1}
Directories == {DirA, DirB, DirC, DirP, DirU, DirQ, DirZ}

Kind(p) ==
    CASE p \in Directories -> "dir"
      [] p \in Failing -> "error"
      [] p = SockS1 -> "other"
      [] p = Missing -> "missing"
      [] OTHER -> "file"

st_size(p) ==
    CASE p = FileA1 -> 10
      [] p = FileA2 -> 20
      [] p = FileC1 -> 5
      [] p = FileP1 -> 10
      [] p = FileP2 -> 20
      [] p = SockS1 -> 0
      [] p = FileZ1 -> 0
      [] OTHER -> 1

\* The folders a user can pick for a scan.
Roots == {DirA, DirB, DirP, DirZ, Missing}
\* askdirectory() returns the empty string when the dialog is cancelled.
NoSelection == <<>>

(***************************************************************************)
(* Arithmetic.  Python's floats are modelled by exact rationals n/d in     *)
(* lowest terms with d > 0: rounding is not modelled.                      *)
(***************************************************************************)
\* The sum of a sequence of numbers, halving the range.
RECURSIVE SumRange(_, _, _)
SumRange(s, lo, hi) ==
    IF lo > hi THEN 0
    ELSE IF lo = hi THEN s[lo]
    ELSE LET mid == (lo + hi) \div 2
         IN SumRange(s, lo, mid) + SumRange(s, mid + 1, hi)

SumSeq(s) == SumRange(s, 1, Len(s))

RECURSIVE GCD(_, _)
GCD(a, b) == IF b = 0 THEN a ELSE GCD(b, a % b)

Abs(n) == IF n < 0 THEN -n ELSE n

Rat(n, d) == LET g == GCD(Abs(n), d) IN [n |-> n \div g, d |-> d \div g]
RInt(k) == [n |-> k, d |-> 1]
RAdd(a, b) ==
    LET g == GCD(a.d, b.d)
    IN Rat(a.n * (b.d \div g) + b.n * (a.d \div g), (a.d \div g) * b.d)
RNeg(a) == [n |-> -a.n, d |-> a.d]
RSub(a, b) == RAdd(a, RNeg(b))
RMul(a, b) ==
    LET g1 == GCD(Abs(a.n), b.d)
        g2 == GCD(Abs(b.n), a.d)
    IN [n |-> (a.n \div g1) * (b.n \div g2), d |-> (a.d \div g2) * (b.d \div g1)]
\* a / b for b > 0
RDiv(a, b) == RMul(a, [n |-> b.d, d |-> b.n])
\* an/ad < bn/bd for ad, bd > 0, by the integer parts and then the inverted
\* remainders, so that no product is formed.
RECURSIVE FracLt(_, _, _, _)
FracLt(an, ad, bn, bd) ==
    LET qa == an \div ad
        qb == bn \div bd
        ra == an % ad
        rb == bn % bd
    IN IF qa # qb THEN qa < qb
       ELSE IF rb = 0 THEN FALSE
       ELSE IF ra = 0 THEN TRUE
       ELSE FracLt(bd, rb, ad, ra)

RLt(a, b) == FracLt(a.n, a.d, b.n, b.d)
RLe(a, b) == ~RLt(b, a)
RMax(a, b) == IF RLt(a, b) THEN b ELSE a

(***************************************************************************)
(* src/sizegraph.py: the state of the SizeGraph object.                    *)
(*                                                                         *)
(* A FileInfo of a directory and its children list are objects shared by   *)
(* reference (the queue holds the children list of the parent), so they    *)
(* live in a heap: heap[n] is the children list made by the n-th           *)
(* process_scan_queue step that listed a directory, with the fields of the *)
(* FileInfo that step makes of it.  A FileInfo of a file is never changed  *)
(* and is held by value.                                                   *)
(***************************************************************************)
VARIABLES
    app,                  \* which of the two programs runs
    scanning,             \* self.scanning
    scan_queue,           \* self.scan_queue: (path, children list of the parent)
    root_item,            \* self.root_item: a heap reference, None before it is set
    heap,                 \* the directory FileInfo objects and their children lists
    total_files_scanned,  \* self.total_files_scanned
    total_size_scanned,   \* self.total_size_scanned
    progress_window,      \* self.progress_window: "none", "open" or "destroyed"
    root_info,            \* what the root_info label shows
    canvas,               \* the root item the canvas shows the treemap of
    first_scan,           \* the root path of after(100, start_scan), until it fires
    timers,               \* the number of scheduled after(1, process_scan_queue)
    stack,                \* the process_scan_queue calls suspended in update()
    scans,                \* how many times start_scan has run
    finishes,             \* how many times finish_scan has run
    last,                 \* the handler that ran last
    v2_root,              \* sizegraphv2: TreemapView.root_info
    tree,                 \* LayoutSpec: the aggregated tree that is laid out
    call,                 \* LayoutSpec: the layout that ran last
    scene,                \* LayoutSpec: what that layout drew
    rows                  \* LayoutSpec: the rows layout_treemap closed for call.of

\* The variables of the scanning machine, and those of the layouts.
scan_vars == <<app, scanning, scan_queue, root_item, heap, total_files_scanned,
               total_size_scanned, progress_window, root_info, canvas,
               first_scan, timers, stack, scans, finishes, last, v2_root>>
layout_vars == <<tree, call, scene, rows>>

vars == <<app, scanning, scan_queue, root_item, heap, total_files_scanned,
          total_size_scanned, progress_window, root_info, canvas, first_scan,
          timers, stack, scans, finishes, last, v2_root, tree, call, scene,
          rows>>

None == 0
Fired == <<>>
NoText == [path |-> <<>>, size |-> 0]
\* The progress labels are configured and update() is called every
\* ProgressEvery files.
ProgressEvery == 100

\* FileInfo(item, size, False, [])
FileNode(p, size) == [path |-> p, size |-> size, is_dir |-> FALSE, ref |-> None]
\* A directory FileInfo in a children list: a reference into the heap.
DirNode(p, ref) == [path |-> p, size |-> 0, is_dir |-> TRUE, ref |-> ref]
\* children = []; the FileInfo is made of it when the listing is over.  scan
\* is the scan (the start_scan call) the directory was found by.
NewChildren(p, scan) ==
    [path |-> p, size |-> 0, children |-> <<>>, made |-> FALSE, scan |-> scan]

\* The state of the object as one record, which the handlers below map to the
\* state they leave.
Self ==
    [scanning |-> scanning, scan_queue |-> scan_queue, root_item |-> root_item,
     heap |-> heap, total_files_scanned |-> total_files_scanned,
     total_size_scanned |-> total_size_scanned,
     progress_window |-> progress_window, root_info |-> root_info,
     canvas |-> canvas, timers |-> timers, stack |-> stack, scans |-> scans,
     finishes |-> finishes]

Becomes(m) ==
    /\ scanning' = m.scanning
    /\ scan_queue' = m.scan_queue
    /\ root_item' = m.root_item
    /\ heap' = m.heap
    /\ total_files_scanned' = m.total_files_scanned
    /\ total_size_scanned' = m.total_size_scanned
    /\ progress_window' = m.progress_window
    /\ root_info' = m.root_info
    /\ canvas' = m.canvas
    /\ timers' = m.timers
    /\ stack' = m.stack
    /\ scans' = m.scans
    /\ finishes' = m.finishes

\* item.size of a member of a children list.
SizeOf(h, k) == IF k.is_dir THEN h[k.ref].size ELSE k.size

(***************************************************************************)
(* recalculate_dir_size: the post-order sum.  It returns the total and the *)
(* heap with item.size assigned in every directory it visited.  The        *)
(* children are visited in order; only a directory child changes the heap, *)
(* so the total is the sum of the children's sizes in the heap that the    *)
(* visits of the directory children leave.                                 *)
(***************************************************************************)
\* sum(item.size for item in children)
SumSizes(h, kids) == SumSeq([i \in 1..Len(kids) |-> SizeOf(h, kids[i])])

RECURSIVE recalculate_dir_size(_, _), recalculate_children(_, _, _)
recalculate_children(h, dirs, i) ==
    IF i > Len(dirs) THEN h
    ELSE recalculate_children(recalculate_dir_size(h, dirs[i].ref).heap, dirs, i + 1)

\* A recalculation that does not descend: only the item itself gets its sum.
recalculate_dir_size_flat(h, ref) ==
    LET total == SumSizes(h, h[ref].children)
    IN [total |-> total, heap |-> [h EXCEPT ![ref].size = total]]

\* A recalculation that counts a directory's own st_size, as du does.
recalculate_dir_size_own(h, ref) ==
    LET kids == h[ref].children
        IsDir(k) == k.is_dir
        h1 == recalculate_children(h, SelectSeq(kids, IsDir), 1)
        total == st_size(h[ref].path) + SumSizes(h1, kids)
    IN [total |-> total, heap |-> [h1 EXCEPT ![ref].size = total]]

recalculate_dir_size(h, ref) ==
    LET kids == h[ref].children
        IsDir(k) == k.is_dir
        h1 == recalculate_children(h, SelectSeq(kids, IsDir), 1)
        total == SumSizes(h1, kids)
    IN [total |-> total, heap |-> [h1 EXCEPT ![ref].size = total]]

(***************************************************************************)
(* finish_scan: destroys the progress window, shows the root's path and    *)
(* size, and draws the treemap of root_item (draw_graph; its geometry is   *)
(* the subject of LayoutSpec).  Without a root_item, line 186 raises       *)
(* AttributeError and nothing is shown.                                    *)
(***************************************************************************)
finish_scan(m) ==
    LET m1 == [m EXCEPT !.progress_window = "destroyed", !.finishes = @ + 1]
    IN IF m.root_item = None THEN m1
       ELSE [m1 EXCEPT !.root_info = [path |-> m.heap[m.root_item].path,
                                      size |-> m.heap[m.root_item].size],
                       !.canvas = m.root_item]

\* The branch of process_scan_queue taken when the scan is over or stopped.
finish_up(m) ==
    IF m.root_item # None
    THEN finish_scan([m EXCEPT !.heap = recalculate_dir_size(m.heap, m.root_item).heap])
    ELSE finish_scan(m)

(***************************************************************************)
(* The listing loop of process_scan_queue, from entry f.idx on.  It ends   *)
(* "done" when the listing is exhausted, "update" when it calls            *)
(* progress_window.update() (the frame is then suspended while the nested  *)
(* event loop runs), or "tclerror" when the progress labels it configures  *)
(* were destroyed: TclError is not an OSError and leaves the handler.      *)
(***************************************************************************)
\* current_path.iterdir(): what the loop iterates; raising is an empty loop.
iterdir(p) == IF p \in Unreadable \/ Kind(p) # "dir" THEN <<>> ELSE Listing(p)

\* The loop over the entries from..to: every file is stat'ed, counted and
\* appended to children, every directory is appended to the queue; an entry
\* whose is_file() or stat() raises is printed and skipped by the inner
\* except, and so is one that is neither a file nor a directory.
list_entries(m, f, entries, from, to) ==
    LET part == SubSeq(entries, from, to)
        IsFile(p) == Kind(p) = "file"
        IsDir(p) == Kind(p) = "dir"
        files == SelectSeq(part, IsFile)
        dirs == SelectSeq(part, IsDir)
        sizes == [i \in 1..Len(files) |-> FileNode(files[i], st_size(files[i]))]
    IN [m EXCEPT
          !.total_size_scanned = @ + SumSizes(m.heap, sizes),
          !.total_files_scanned = @ + Len(files),
          !.heap[f.children].children = @ \o sizes,
          !.scan_queue = @ \o [i \in 1..Len(dirs) |->
                                 [path |-> dirs[i], parent |-> f.children,
                                  scan |-> f.scan]]]

\* A loop that breaks off when it finds the scan stopped, leaving the rest of
\* the listing out of the children that are attached.
listing_loop_stops(m, f) ==
    IF ~m.scanning THEN [m |-> m, f |-> f, status |-> "done"] ELSE
    LET entries == iterdir(f.path)
        files == {i \in f.idx..Len(entries) : Kind(entries[i]) = "file"}
        \* the file that makes total_files_scanned a multiple of ProgressEvery
        due == ProgressEvery - (m.total_files_scanned % ProgressEvery)
        stops == {i \in files : Cardinality({j \in files : j <= i}) = due}
    IN IF stops = {}
       THEN [m |-> list_entries(m, f, entries, f.idx, Len(entries)),
             f |-> [f EXCEPT !.idx = Len(entries) + 1], status |-> "done"]
       ELSE LET stop == CHOOSE i \in stops : TRUE
                m1 == list_entries(m, f, entries, f.idx, stop)
            IN [m |-> m1, f |-> [f EXCEPT !.idx = stop + 1],
                status |-> IF m1.progress_window = "open" THEN "update"
                           ELSE "tclerror"]

listing_loop(m, f) ==
    LET entries == iterdir(f.path)
        files == {i \in f.idx..Len(entries) : Kind(entries[i]) = "file"}
        \* the file that makes total_files_scanned a multiple of ProgressEvery
        due == ProgressEvery - (m.total_files_scanned % ProgressEvery)
        stops == {i \in files : Cardinality({j \in files : j <= i}) = due}
    IN IF stops = {}
       THEN [m |-> list_entries(m, f, entries, f.idx, Len(entries)),
             f |-> [f EXCEPT !.idx = Len(entries) + 1], status |-> "done"]
       ELSE LET stop == CHOOSE i \in stops : TRUE
                m1 == list_entries(m, f, entries, f.idx, stop)
            IN [m |-> m1, f |-> [f EXCEPT !.idx = stop + 1],
                status |-> IF m1.progress_window = "open" THEN "update"
                           ELSE "tclerror"]

\* Lines 170-176: the FileInfo is made and attached, the next step scheduled.
after_listing(m, f) ==
    LET made == [m EXCEPT !.heap[f.children].made = TRUE, !.timers = @ + 1]
    IN IF f.parent # None
       THEN [made EXCEPT !.heap[f.parent].children =
                             Append(@, DirNode(f.path, f.children))]
       ELSE [made EXCEPT !.root_item = f.children]

\* Runs the frame f until its listing is over or it is suspended.
run_listing(m, f) ==
    LET r == listing_loop(m, f)
    IN CASE r.status = "done" -> after_listing(r.m, r.f)
         [] r.status = "update" -> [r.m EXCEPT !.stack = Append(@, r.f)]
         [] OTHER -> r.m

process_scan_queue(m) ==
    IF ~m.scanning \/ m.scan_queue = <<>>
    THEN finish_up(m)
    ELSE LET e == Head(m.scan_queue)
             ref == Len(m.heap) + 1
             m1 == [m EXCEPT !.scan_queue = Tail(@),
                             !.heap = Append(@, NewChildren(e.path, e.scan))]
         IN run_listing(m1, [path |-> e.path, parent |-> e.parent,
                             children |-> ref, idx |-> 1, scan |-> e.scan])

\* start_scan: a new progress window, the counters reset, the queue replaced
\* by the root alone, and the first step run at once.
start_scan(m, root_path) ==
    process_scan_queue(
        [m EXCEPT !.progress_window = "open",
                  !.total_files_scanned = 0,
                  !.total_size_scanned = 0,
                  !.scans = @ + 1,
                  !.scan_queue = <<[path |-> root_path, parent |-> None,
                                    scan |-> m.scans + 1]>>])

\* start_new_scan, from the dialog's answer on.
start_new_scan(m, root_path) ==
    IF root_path = NoSelection THEN m
    ELSE start_scan([m EXCEPT !.scanning = TRUE, !.canvas = None,
                              !.root_info = NoText],
                    root_path)

\* on_closing.  quit() and destroy() end the Tk application: its widgets are
\* destroyed and no button can be pressed any more.  Whether a callback that
\* is already scheduled still runs is left open: the model lets it run.
on_closing(m) ==
    [m EXCEPT !.scanning = FALSE,
              !.progress_window = IF @ = "none" THEN @ ELSE "destroyed"]

(***************************************************************************)
(* src/sizegraphv2.py: the recursive scan.  A FileInfo is a record that    *)
(* holds its children.  The progress callback, called every 5000 entries,  *)
(* is out of reach of the filesystem above and is not modelled.            *)
(***************************************************************************)
FileInfo(p, size, is_dir, children) ==
    [path |-> p, size |-> size, is_dir |-> is_dir, children |-> children,
     percentage |-> RInt(0)]

\* os.path.isdir never raises; os.stat raises for a missing or failing path.
isdir(p) == Kind(p) = "dir"
stat_raises(p) == Kind(p) \in {"error", "missing"}
scandir_raises(p) == p \in Unreadable

RECURSIVE traverse_directory(_)
traverse_directory(p) ==
    IF stat_raises(p) THEN FileInfo(p, 0, isdir(p), <<>>)
    ELSE IF ~isdir(p) THEN FileInfo(p, st_size(p), FALSE, <<>>)
    ELSE IF scandir_raises(p) THEN FileInfo(p, 0, TRUE, <<>>)
    ELSE LET entries == Listing(p)
             children == [i \in 1..Len(entries) |-> traverse_directory(entries[i])]
         IN FileInfo(p, SumSeq([i \in 1..Len(children) |-> children[i].size]),
                     TRUE, children)

\* _calc_percentage, with total_size the size of the root.
RECURSIVE calc_percentage(_, _)
calc_percentage(node, total_size) ==
    LET pct == IF total_size > 0
               THEN RMul(Rat(node.size, total_size), RInt(100))
               ELSE RInt(0)
    IN IF node.is_dir
       THEN [node EXCEPT !.percentage = pct,
                         !.children = [i \in 1..Len(node.children) |->
                                          calc_percentage(node.children[i], total_size)]]
       ELSE [node EXCEPT !.percentage = pct]

\* Percentages taken of the size of the parent directory.
RECURSIVE calc_percentage_of_parent(_, _)
calc_percentage_of_parent(node, parent_size) ==
    LET pct == IF parent_size > 0
               THEN RMul(Rat(node.size, parent_size), RInt(100))
               ELSE RInt(0)
    IN IF node.is_dir
       THEN [node EXCEPT !.percentage = pct,
                         !.children = [i \in 1..Len(node.children) |->
                                          calc_percentage_of_parent(node.children[i],
                                                                    node.size)]]
       ELSE [node EXCEPT !.percentage = pct]

calculate_percentages_of_parent(root) == calc_percentage_of_parent(root, root.size)

calculate_percentages(root) == calc_percentage(root, root.size)

\* MainWindow(FileInfo(path=Path.home())): the placeholder shown at first.
Home == <<0>>

(***************************************************************************)
(* The event loop.  Events are handled by mainloop() when no handler runs, *)
(* and by the update() of the innermost suspended process_scan_queue.      *)
(***************************************************************************)
MayHandle == app = "sizegraph" /\ Len(stack) < MaxNest
Handler(m) == IF m.finishes > finishes THEN "finish_scan" ELSE "process_scan_queue"

\* after(100, lambda: self.start_scan(root_path)) fires.
FirstScan ==
    /\ MayHandle
    /\ first_scan # Fired
    /\ LET m == start_scan(Self, first_scan)
       IN Becomes(m) /\ last' = Handler(m)
    /\ first_scan' = Fired
    /\ UNCHANGED <<app, v2_root, layout_vars>>

\* A scheduled after(1, self.process_scan_queue) fires.
ProcessScanQueue ==
    /\ MayHandle
    /\ timers > 0
    /\ LET m == process_scan_queue([Self EXCEPT !.timers = @ - 1])
       IN Becomes(m) /\ last' = Handler(m)
    /\ UNCHANGED <<app, first_scan, v2_root, layout_vars>>

\* The "Start new scan" button: the dialog, then start_new_scan's body.
StartNewScan ==
    /\ MayHandle
    /\ scanning
    /\ scans < MaxScans
    /\ \E root_path \in Roots \cup {NoSelection} :
          LET m == start_new_scan(Self, root_path)
          IN Becomes(m)
             /\ last' = IF root_path = NoSelection THEN "start_new_scan"
                        ELSE Handler(m)
    /\ UNCHANGED <<app, first_scan, v2_root, layout_vars>>

\* The window's close button.
OnClosing ==
    /\ MayHandle
    /\ scanning
    /\ Becomes(on_closing(Self))
    /\ last' = "on_closing"
    /\ UNCHANGED <<app, first_scan, v2_root, layout_vars>>

\* progress_window.update() returns to the innermost suspended listing loop.
UpdateReturns ==
    /\ app = "sizegraph"
    /\ stack # <<>>
    /\ LET f == stack[Len(stack)]
           m == run_listing([Self EXCEPT !.stack = SubSeq(@, 1, Len(@) - 1)], f)
       IN Becomes(m) /\ last' = "update_returns"
    /\ UNCHANGED <<app, first_scan, v2_root, layout_vars>>

\* scan_selected_directory: the scan, the percentages, and the new root_info
\* of the treemap view (draw_treemap's geometry is the subject of LayoutSpec).
ScanSelectedDirectory ==
    /\ app = "sizegraphv2"
    /\ \E p \in Roots :
          v2_root' = calculate_percentages(traverse_directory(p))
    /\ last' = "scan_selected_directory"
    /\ UNCHANGED <<scanning, scan_queue, root_item, heap, total_files_scanned,
                   total_size_scanned, progress_window, root_info, canvas,
                   first_scan, timers, stack, scans, finishes, app, layout_vars>>

\* No layout has run.
NoCall == [op |-> "none", of |-> <<>>, within |-> <<>>]
NoScene == [out |-> <<>>, raised |-> FALSE]

Init ==
    /\ app \in {"sizegraph", "sizegraphv2"}
    /\ scanning = TRUE
    /\ scan_queue = <<>>
    /\ root_item = None
    /\ heap = <<>>
    /\ total_files_scanned = 0
    /\ total_size_scanned = 0
    /\ progress_window = "none"
    /\ root_info = NoText
    /\ canvas = None
    /\ first_scan \in IF app = "sizegraph" THEN Roots ELSE {Fired}
    /\ timers = 0
    /\ stack = <<>>
    /\ scans = 0
    /\ finishes = 0
    /\ last = "init"
    /\ v2_root = FileInfo(Home, 0, FALSE, <<>>)
    /\ tree = FileInfo(Home, 0, FALSE, <<>>)
    /\ call = NoCall
    /\ scene = NoScene
    /\ rows = <<>>

Next ==
    \/ FirstScan
    \/ ProcessScanQueue
    \/ StartNewScan
    \/ OnClosing
    \/ UpdateReturns
    \/ ScanSelectedDirectory

Spec == Init /\ [][Next]_vars

(***************************************************************************)
(* The treemap layout of src/sizegraph.py (draw_graph).  Lengths are exact *)
(* rationals.  The result is the sequence of the calls of draw_rectangle,  *)
(* each with drawn, whether the call created a rectangle.  A call also     *)
(* records the directory whose children were being laid out (of) and the   *)
(* rectangle they were laid out in (within): these two are not in the code *)
(* and serve to state the properties of the layout.                        *)
(***************************************************************************)
\* draw_rectangle creates nothing narrower or lower than this.
MinDraw == 2
\* layout_row pools the items narrower than this; _draw_item skips rectangles
\* narrower or lower than this.
MinItem == 1
\* The rectangle draw_graph lays the root's children out in.
CanvasX == 10
CanvasY == 10
CanvasWidth == 760
CanvasHeight == 520

Rect(x, y, w, h) == [x |-> x, y |-> y, w |-> w, h |-> h]
SmallFiles == <<-1>>

\* float('inf')
Inf == [n |-> 1, d |-> 0]
RatioGt(a, b) ==
    IF a.d = 0 THEN b.d # 0
    ELSE IF b.d = 0 THEN FALSE
    ELSE RLt(b, a)

\* The greatest of a non-empty set of rationals.
RMaxOf(S) == CHOOSE r \in S : \A q \in S : RLe(q, r)

Sizes(items) == [i \in 1..Len(items) |-> items[i].size]

draw_rectangle(x, y, width, height, item, of, within) ==
    [path |-> item.path, size |-> item.size, x |-> x, y |-> y, w |-> width,
     h |-> height, of |-> of, within |-> within,
     drawn |-> ~(RLt(width, RInt(MinDraw)) \/ RLt(height, RInt(MinDraw)))]

worst_ratio(row, width, height, total_size) ==
    IF row = <<>> \/ total_size = 0 THEN Inf
    ELSE LET row_sum == SumSeq(Sizes(row)) IN
    IF row_sum = 0 THEN Inf
    ELSE LET row_width == RMul(width, Rat(row_sum, total_size))
             row_height == height
             item_width(i) == RMul(row_width, Rat(row[i].size, row_sum))
             counted == {i \in 1..Len(row) :
                            row[i].size # 0 /\ item_width(i).n # 0}
             ratio(i) == RMax(RDiv(item_width(i), row_height),
                              RDiv(row_height, item_width(i)))
         IN IF counted = {} THEN Inf
            ELSE RMaxOf({ratio(i) : i \in counted})

\* The concatenation of a sequence of sequences, halving the range.
RECURSIVE Flatten(_, _, _)
Flatten(ss, lo, hi) ==
    IF lo > hi THEN <<>>
    ELSE IF lo = hi THEN ss[lo]
    ELSE LET mid == (lo + hi) \div 2
         IN Flatten(ss, lo, mid) \o Flatten(ss, mid + 1, hi)

\* sorted(children, key=lambda x: x.size, reverse=True): stable.
SortedBySize(items) ==
    LET rank(i) == Cardinality({j \in 1..Len(items) :
                        \/ items[j].size > items[i].size
                        \/ items[j].size = items[i].size /\ j < i})
    IN [k \in 1..Len(items) |->
           items[CHOOSE i \in 1..Len(items) : rank(i) = k - 1]]

RECURSIVE layout_treemap(_, _, _, _, _, _), layout_row(_, _, _, _, _, _, _, _),
          treemap_loop(_, _, _, _, _, _, _)

\* A row as high as the whole rectangle, the height worst_ratio reckons with.
row_height_whole(height, row_sum, total_size) == height

\* row_height = height * row_sum / total_size (line 308)
row_height_of(height, row_sum, total_size) == RMul(height, Rat(row_sum, total_size))

\* The visible items starting where the pooled rectangle starts.
after_pool_unmoved(x, combined_width) == x

\* xpos after the pooled rectangle: xpos += combined_width (line 328)
after_pool(x, combined_width) == RAdd(x, combined_width)

layout_row(items, x, y, width, height, total_size, of, within) ==
    IF items = <<>> \/ total_size = 0 THEN [y |-> y, out |-> <<>>]
    ELSE LET row_sum == SumSeq(Sizes(items)) IN
    IF row_sum = 0 THEN [y |-> y, out |-> <<>>]
    ELSE LET row_height == row_height_of(height, row_sum, total_size)
             item_width(item) == RMul(width, Rat(item.size, row_sum))
             \* Group very small items
             IsSmall(item) == RLt(item_width(item), RInt(MinItem))
             IsVisible(item) == ~IsSmall(item)
             small_items_size == SumSeq(Sizes(SelectSeq(items, IsSmall)))
             visible_items == SelectSeq(items, IsVisible)
             combined_width == RMul(width, Rat(small_items_size, row_sum))
             pooled == small_items_size > 0 /\ ~RLt(combined_width, RInt(MinItem))
             first == IF pooled THEN after_pool(x, combined_width) ELSE x
             \* xpos after the visible items before the j-th
             xpos(j) == RAdd(first,
                             RMul(width,
                                  Rat(SumSeq(SubSeq(Sizes(visible_items), 1, j - 1)),
                                      row_sum)))
             draw(j) ==
                 LET item == visible_items[j]
                     rect == draw_rectangle(xpos(j), y, item_width(item), row_height,
                                            item, of, within)
                 IN IF item.is_dir /\ item.children # <<>>
                    THEN <<rect>> \o layout_treemap(item.children, xpos(j), y,
                                                    item_width(item), row_height,
                                                    item.path)
                    ELSE <<rect>>
         IN [y |-> RAdd(y, row_height),
             out |-> (IF pooled
                      THEN <<draw_rectangle(x, y, combined_width, row_height,
                                 [path |-> SmallFiles, size |-> small_items_size],
                                 of, within)>>
                      ELSE <<>>)
                     \o Flatten([j \in 1..Len(visible_items) |-> draw(j)],
                                1, Len(visible_items))]

\* The while loop of layout_treemap from items[i] on; g holds the arguments
\* of layout_treemap and total_size.
treemap_loop(items, i, row, best_ratio, y, g, out) ==
    IF i > Len(items)
    THEN IF row # <<>>
         THEN out \o layout_row(row, g.x, y, g.width, g.height, g.total_size,
                                g.of, g.within).out
         ELSE out
    ELSE LET appended == Append(row, items[i])
             ratio == worst_ratio(appended, g.width, g.height, g.total_size)
         IN IF RatioGt(ratio, best_ratio)
            THEN LET r == layout_row(row, g.x, y, g.width, g.height,
                                     g.total_size, g.of, g.within)
                 IN treemap_loop(items, i + 1, <<items[i]>>, Inf, r.y, g,
                                 out \o r.out)
            ELSE treemap_loop(items, i + 1, appended, ratio, y, g, out)

\* The rows the while loop of layout_treemap hands to layout_row, each with
\* the value worst_ratio gave for it when its last member was appended.
RECURSIVE treemap_rows(_, _, _, _, _, _)
treemap_rows(items, i, row, ratio_of_row, best_ratio, g) ==
    IF i > Len(items)
    THEN IF row # <<>> THEN <<[members |-> row, ratio |-> ratio_of_row]>> ELSE <<>>
    ELSE LET appended == Append(row, items[i])
             ratio == worst_ratio(appended, g.width, g.height, g.total_size)
         IN IF RatioGt(ratio, best_ratio)
            THEN <<[members |-> row, ratio |-> ratio_of_row]>>
                 \o treemap_rows(items, i + 1, <<items[i]>>, ratio, Inf, g)
            ELSE treemap_rows(items, i + 1, appended, ratio, ratio, g)

rows_of(items, width, height) ==
    IF items = <<>> \/ SumSeq(Sizes(items)) = 0 THEN <<>>
    ELSE treemap_rows(items, 1, <<>>, Inf, Inf,
                      [width |-> width, height |-> height,
                       total_size |-> SumSeq(Sizes(items))])

layout_treemap(items, x, y, width, height, of) ==
    IF items = <<>> THEN <<>>
    ELSE LET total_size == SumSeq(Sizes(items)) IN
    IF total_size = 0 THEN <<>>
    ELSE treemap_loop(items, 1, <<>>, Inf, y,
                      [x |-> x, width |-> width, height |-> height,
                       total_size |-> total_size, of |-> of,
                       within |-> Rect(x, y, width, height)],
                      <<>>)

\* draw_graph, lines 372-377.
draw_graph(root) ==
    IF root.children # <<>>
    THEN layout_treemap(SortedBySize(root.children), RInt(CanvasX), RInt(CanvasY),
                        RInt(CanvasWidth), RInt(CanvasHeight), root.path)
    ELSE <<>>

(***************************************************************************)
(* The slice layout of src/sizegraphv2.py.  The result holds the calls of  *)
(* _draw_item, each with drawn, whether it added a rectangle to the scene, *)
(* and raised, whether ZeroDivisionError left the layout.                  *)
(***************************************************************************)
RECURSIVE draw_item(_, _, _, _), layout_children(_, _), children_loop(_, _, _, _, _, _)

draw_item(item, rect, of, within) ==
    LET this == [path |-> item.path, size |-> item.size, x |-> rect.x,
                 y |-> rect.y, w |-> rect.w, h |-> rect.h, of |-> of,
                 within |-> within,
                 drawn |-> ~(RLt(rect.w, RInt(MinItem)) \/ RLt(rect.h, RInt(MinItem)))]
    IN IF ~this.drawn THEN [out |-> <<this>>, raised |-> FALSE]
       ELSE IF item.is_dir
            THEN LET r == layout_children(item, rect)
                 IN [out |-> <<this>> \o r.out, raised |-> r.raised]
            ELSE [out |-> <<this>>, raised |-> FALSE]

\* The for loop of _layout_children from children[i] on, at offset.
children_loop(dir_item, rect, total_size, i, offset, out) ==
    IF i > Len(dir_item.children) THEN [out |-> out, raised |-> FALSE]
    ELSE IF total_size = 0 THEN [out |-> out, raised |-> TRUE]
    ELSE LET child == dir_item.children[i]
             share == Rat(child.size, total_size)
         IN IF RLt(rect.h, rect.w)
            THEN LET child_width == RMul(rect.w, share)
                     r == draw_item(child, Rect(offset, rect.y, child_width, rect.h),
                                    dir_item.path, rect)
                 IN IF r.raised THEN [out |-> out \o r.out, raised |-> TRUE]
                    ELSE children_loop(dir_item, rect, total_size, i + 1,
                                       RAdd(offset, child_width), out \o r.out)
            ELSE LET child_height == RMul(rect.h, share)
                     r == draw_item(child, Rect(rect.x, offset, rect.w, child_height),
                                    dir_item.path, rect)
                 IN IF r.raised THEN [out |-> out \o r.out, raised |-> TRUE]
                    ELSE children_loop(dir_item, rect, total_size, i + 1,
                                       RAdd(offset, child_height), out \o r.out)

layout_children(dir_item, rect) ==
    IF dir_item.children = <<>> THEN [out |-> <<>>, raised |-> FALSE]
    ELSE children_loop(dir_item, rect, SumSeq(Sizes(dir_item.children)), 1,
                       IF RLt(rect.h, rect.w) THEN rect.x ELSE rect.y, <<>>)

\* draw_treemap: the root in the viewport.
draw_treemap(root, width, height) ==
    draw_item(root, Rect(RInt(0), RInt(0), RInt(width), RInt(height)), <<>>,
              Rect(RInt(0), RInt(0), RInt(width), RInt(height)))

(***************************************************************************)
(* LayoutSpec: the layouts applied to aggregated trees.  The trees are     *)
(* those a scan leaves of                                                  *)
(*     top/  f1  f2  sub/  with  sub/  g1  g2  deep/  and  deep/ [h1]      *)
(* with every file size drawn from LeafSizes: a directory has the size of  *)
(* its children, and its files come before its subdirectories.             *)
(***************************************************************************)
\* The largest file of the trees.
MaxLeaf == 3
LeafSizes == {0, 1, MaxLeaf}

Top == <<7>>
File(p, size) == FileInfo(p, size, FALSE, <<>>)
Dir(p, children) == FileInfo(p, SumSeq(Sizes(children)), TRUE, children)

Trees ==
    {Dir(Top, <<File(Top \o <<1>>, f1), File(Top \o <<2>>, f2),
                Dir(Top \o <<3>>,
                    <<File(Top \o <<3, 1>>, g1), File(Top \o <<3, 2>>, g2),
                      Dir(Top \o <<3, 3>>, deep)>>)>>) :
        f1 \in LeafSizes, f2 \in LeafSizes, g1 \in LeafSizes, g2 \in LeafSizes,
        deep \in {<<>>} \cup {<<File(Top \o <<3, 3, 1>>, h1)>> : h1 \in LeafSizes}}

\* The rectangles layout_treemap is called with for a directory below the
\* root, and the sizes of the viewport of the treemap view.
Rects ==
    {Rect(RInt(CanvasX), RInt(CanvasY), RInt(CanvasWidth), RInt(CanvasHeight)),
     Rect(RInt(0), RInt(0), RInt(4), RInt(1)),
     Rect(Rat(5, 2), Rat(1, 3), RInt(5), RInt(1))}
Viewports == {<<800, 600>>, <<4, 1>>, <<2, 5>>}

\* Two files of 60 and 40 bytes, laid out in a rectangle of 100 x 50.
SixtyForty == Dir(<<8>>, <<File(<<8, 1>>, 60), File(<<8, 2>>, 40)>>)
SixtyFortyRect == Rect(RInt(0), RInt(0), RInt(100), RInt(50))

\* One file of 990 and fifty of 0.2 each, in bytes times five, laid out in
\* rectangles 1000 wide and of the heights below.
OneBigFiftyTiny ==
    Dir(<<9>>, <<File(<<9, 1>>, 4950)>> \o [i \in 1..50 |-> File(<<9, 1 + i>>, 1)])
WideHeights == {1, 10, 14, 15, 520, 1000}
WideRects == {Rect(RInt(0), RInt(0), RInt(1000), RInt(h)) : h \in WideHeights}

Examples == {SixtyForty, OneBigFiftyTiny}

\* The rectangles a tree's directories are laid out in.
RectsOf(t) ==
    IF t = SixtyForty THEN {SixtyFortyRect}
    ELSE IF t = OneBigFiftyTiny THEN WideRects
    ELSE Rects

\* The node of path p in the tree t.
RECURSIVE Node(_, _)
Node(t, p) ==
    IF t.path = p THEN t
    ELSE LET i == CHOOSE j \in 1..Len(t.children) :
                     /\ Len(t.children[j].path) <= Len(p)
                     /\ SubSeq(p, 1, Len(t.children[j].path)) = t.children[j].path
         IN Node(t.children[i], p)

\* The directories of t that have children.
RECURSIVE Parents(_)
Parents(t) ==
    IF t.is_dir /\ t.children # <<>>
    THEN {t.path} \cup UNION {Parents(t.children[i]) : i \in 1..Len(t.children)}
    ELSE {}

LayoutInit ==
    /\ tree \in Trees \cup Examples
    /\ call = NoCall
    /\ scene = NoScene
    /\ rows = <<>>
    /\ app = "layout"
    /\ scanning = TRUE
    /\ scan_queue = <<>>
    /\ root_item = None
    /\ heap = <<>>
    /\ total_files_scanned = 0
    /\ total_size_scanned = 0
    /\ progress_window = "none"
    /\ root_info = NoText
    /\ canvas = None
    /\ first_scan = Fired
    /\ timers = 0
    /\ stack = <<>>
    /\ scans = 0
    /\ finishes = 0
    /\ last = "init"
    /\ v2_root = FileInfo(Home, 0, FALSE, <<>>)

\* sizegraph.py: draw_graph on the tree.
DrawGraph ==
    /\ call' = [op |-> "draw_graph", of |-> tree.path,
                within |-> Rect(RInt(CanvasX), RInt(CanvasY), RInt(CanvasWidth),
                                RInt(CanvasHeight))]
    /\ scene' = [out |-> draw_graph(tree), raised |-> FALSE]
    /\ rows' = rows_of(SortedBySize(tree.children), RInt(CanvasWidth),
                       RInt(CanvasHeight))
    /\ UNCHANGED <<tree, scan_vars>>

\* sizegraph.py: layout_treemap called by layout_row for a directory with
\* children, in the rectangle the directory was given.
LayoutTreemap ==
    /\ \E p \in Parents(tree), r \in RectsOf(tree) :
          /\ call' = [op |-> "layout_treemap", of |-> p, within |-> r]
          /\ scene' = [out |-> layout_treemap(Node(tree, p).children, r.x, r.y,
                                              r.w, r.h, p),
                       raised |-> FALSE]
          /\ rows' = rows_of(Node(tree, p).children, r.w, r.h)
    /\ UNCHANGED <<tree, scan_vars>>

\* sizegraphv2.py: draw_treemap in a viewport (TreemapView.__init__, resizeEvent).
DrawTreemap ==
    /\ \E v \in Viewports :
          /\ call' = [op |-> "draw_treemap", of |-> tree.path,
                      within |-> Rect(RInt(0), RInt(0), RInt(v[1]), RInt(v[2]))]
          /\ scene' = draw_treemap(tree, v[1], v[2])
    /\ rows' = <<>>
    /\ UNCHANGED <<tree, scan_vars>>

LayoutNext ==
    \/ DrawGraph
    \/ LayoutTreemap
    \/ DrawTreemap

LayoutSpec == LayoutInit /\ [][LayoutNext]_vars

(***************************************************************************)
(* The tree that hangs from a directory FileInfo.                          *)
(***************************************************************************)
DirRefs(h, ref) ==
    {h[ref].children[i].ref :
        i \in {j \in 1..Len(h[ref].children) : h[ref].children[j].is_dir}}

RECURSIVE Reach(_, _)
Reach(h, ref) == {ref} \cup UNION {Reach(h, c) : c \in DirRefs(h, ref)}

\* Every directory under ref has the size of its children.
Aggregated(h, ref) ==
    \A r \in Reach(h, ref) : h[r].size = SumSizes(h, h[r].children)

RECURSIVE AggregatedV2(_)
AggregatedV2(node) ==
    node.is_dir =>
        /\ node.size = SumSeq([i \in 1..Len(node.children) |-> node.children[i].size])
        /\ \A i \in 1..Len(node.children) : AggregatedV2(node.children[i])

Finished == last = "finish_scan" /\ root_item # None

\* C1: after the aggregation step, every directory reachable from the root
\* has the size of the sum of its children, at every depth: in sizegraph.py
\* when process_scan_queue has recalculated and called finish_scan, in
\* sizegraphv2.py in the tree traverse_directory returns.
C1_AggregationCorrect ==
    /\ Finished => Aggregated(heap, root_item)
    /\ AggregatedV2(v2_root)

\* A finished scan of DirA: 30 bytes of its own, 100 in DirB, 5 in DirC.
C1_Witness ==
    /\ Finished
    /\ heap[root_item].path = DirA
    /\ heap[root_item].size = 30 + FilesInB + 5

\* The files a completed listing of path p leaves in the children list.
FilesListed(p) ==
    LET IsFile(q) == Kind(q) = "file"
        files == SelectSeq(iterdir(p), IsFile)
    IN [i \in 1..Len(files) |-> FileNode(files[i], st_size(files[i]))]

ListingComplete(h, r) ==
    LET IsFile(k) == ~k.is_dir
    IN SelectSeq(h[r].children, IsFile) = FilesListed(h[r].path)

\* C2: when a stopped scan (scanning false) is finished, the tree handed to
\* finish_scan is aggregated and every directory in it holds all the files of
\* its listing: none was attached with its listing loop partly run.
C2_CancelledTreeValid ==
    (Finished /\ ~scanning) =>
        /\ Aggregated(heap, root_item)
        /\ \A r \in Reach(heap, root_item) : ListingComplete(heap, r)

\* Stopped with directories still pending, and DirB's hundred files attached.
C2_Witness ==
    /\ Finished /\ ~scanning
    /\ scan_queue # <<>>
    /\ \E r \in Reach(heap, root_item) :
          heap[r].path = DirB /\ Len(heap[r].children) >= FilesInB

\* C3: a re-scan discards the old tree: once start_scan has run again, the
\* queue holds only directories found by the new scan, and the tree that
\* finish_scan gets is made only of nodes of the new scan.
C3_RescanDiscardsOldTree ==
    /\ \A i \in 1..Len(scan_queue) : scan_queue[i].scan = scans
    /\ Finished => \A r \in Reach(heap, root_item) : heap[r].scan = scans

\* C4: an entry whose classification or stat raises is recorded as a node of
\* size 0 under its parent directory.
C4_FailingEntriesRecorded ==
    \A r \in 1..Len(heap) :
        heap[r].made =>
            \A i \in 1..Len(iterdir(heap[r].path)) :
                Kind(iterdir(heap[r].path)[i]) = "error" =>
                    \E j \in 1..Len(heap[r].children) :
                        /\ heap[r].children[j].path = iterdir(heap[r].path)[i]
                        /\ SizeOf(heap, heap[r].children[j]) = 0

\* C5: scanning a root that does not exist is fatal: no tree is produced for
\* it, not even a root of size 0, and nothing is aggregated or drawn.
C5_MissingRootIsFatal ==
    /\ root_item # None => heap[root_item].path # Missing
    /\ v2_root.path # Missing

C7_UnvisitedAreZeroLeaves ==
    ~scanning =>
        \A i \in 1..Len(scan_queue) :
            scan_queue[i].parent # None =>
                \E j \in 1..Len(heap[scan_queue[i].parent].children) :
                    LET k == heap[scan_queue[i].parent].children[j]
                    IN /\ k.path = scan_queue[i].path
                       /\ k.is_dir
                       /\ SizeOf(heap, k) = 0
                       /\ heap[k.ref].children = <<>>

\* C8: the finishing step (recalculate_dir_size, finish_scan) never runs
\* while a process_scan_queue step is still inside its listing loop, nor
\* while directories are queued and the scan is not stopped.
C8_NoAggregationWhileScanning ==
    last = "finish_scan" =>
        /\ stack = <<>>
        /\ scan_queue = <<>> \/ ~scanning


(***************************************************************************)
(* The layouts of a scene.  The rectangles a layout gave to the children   *)
(* of the directory d are the calls whose of is d; R is their within.      *)
(***************************************************************************)
Entries(d) == {i \in 1..Len(scene.out) : scene.out[i].of = d}
LaidOut == {scene.out[i].of : i \in 1..Len(scene.out)} \ {<<>>}
WithinOf(d) == scene.out[CHOOSE i \in Entries(d) : TRUE].within

Inside(a, R) ==
    /\ RLe(R.x, a.x) /\ RLe(RAdd(a.x, a.w), RAdd(R.x, R.w))
    /\ RLe(R.y, a.y) /\ RLe(RAdd(a.y, a.h), RAdd(R.y, R.h))
Disjoint(a, b) ==
    \/ RLe(RAdd(a.x, a.w), b.x) \/ RLe(RAdd(b.x, b.w), a.x)
    \/ RLe(RAdd(a.y, a.h), b.y) \/ RLe(RAdd(b.y, b.h), a.y)

\* C9: in both layouts the rectangles given to the children of one
\* directory within its rectangle R lie inside R, all of them share the one
\* R, and any two of them have disjoint interiors.
C9_SiblingsDisjointInside ==
    \A d \in LaidOut :
        /\ \A i \in Entries(d) :
              /\ scene.out[i].within = WithinOf(d)
              /\ Inside(scene.out[i], WithinOf(d))
        /\ \A i, j \in Entries(d) :
              i < j => Disjoint(scene.out[i], scene.out[j])

\* A row of the squarified layout with a pooled rectangle beside a file's
\* own, and a slice layout of three children.
C9_Witness ==
    /\ call.op = "layout_treemap"
    /\ \E i, j \in 1..Len(scene.out) :
          /\ scene.out[i].path = SmallFiles
          /\ scene.out[j].path # SmallFiles
          /\ scene.out[j].of = scene.out[i].of
          /\ scene.out[j].y = scene.out[i].y

C9_WitnessSlices ==
    /\ call.op = "draw_treemap"
    /\ \E d \in LaidOut : Cardinality(Entries(d)) = 3
                          /\ \A i \in Entries(d) : scene.out[i].drawn

\* The share of the area of R that the rectangle a takes.
AreaShare(a, R) == RMul(RDiv(a.w, R.w), RDiv(a.h, R.h))
RECURSIVE RSum(_, _)
RSum(f, S) ==
    IF S = {} THEN RInt(0)
    ELSE LET i == CHOOSE k \in S : TRUE IN RAdd(f[i], RSum(f, S \ {i}))

\* The share of R left empty by the layout of d.
Shortfall(d, R) ==
    RSub(RInt(1), RSum([i \in Entries(d) |-> AreaShare(scene.out[i], R)], Entries(d)))

\* C10: when the children of a directory have a non-zero total, each
\* rectangle the layout gives takes the share of the area of R that its size
\* is of the total, and the rectangles together take all of R; in the
\* squarified layout alone a part may be missing, and then it is less than
\* one unit wide in every row (pools narrower than one unit that were
\* dropped).
C10_AreaProportional ==
    call.op # "none" =>
    \A d \in LaidOut \cup {call.of} :
        LET total == SumSeq(Sizes(Node(tree, d).children))
            R == IF d = call.of THEN call.within ELSE WithinOf(d)
        IN total > 0 /\ ~scene.raised =>
              /\ \A i \in Entries(d) :
                    AreaShare(scene.out[i], R) = Rat(scene.out[i].size, total)
              /\ \/ Shortfall(d, R) = RInt(0)
                 \/ /\ call.op # "draw_treemap"
                    /\ RLt(RInt(0), Shortfall(d, R))
                    /\ RLt(RMul(Shortfall(d, R), R.w), RInt(MinItem))

\* A squarified layout that dropped a pool, and a slice layout of children
\* of different non-zero sizes.
C10_Witness ==
    /\ call.op = "layout_treemap"
    /\ RLt(RInt(0), Shortfall(call.of, call.within))
    /\ Entries(call.of) # {}

C10_WitnessSlices ==
    /\ call.op = "draw_treemap"
    /\ \E d \in LaidOut : \E i, j \in Entries(d) :
          /\ scene.out[i].size > scene.out[j].size
          /\ scene.out[j].size > 0


\* The rectangle the layout gave to the child of path p.
EntryOf(p) == scene.out[CHOOSE i \in 1..Len(scene.out) : scene.out[i].path = p]

\* C11: the squarified layout of two children of 60 and 40 in a rectangle
\* of 100 x 50 gives them widths 60 and 40, each of height 50, side by side.
C11_SixtyFortySideBySide ==
    (call.op = "layout_treemap" /\ tree = SixtyForty) =>
        /\ Len(scene.out) = 2
        /\ EntryOf(<<8, 1>>).w = RInt(60) /\ EntryOf(<<8, 1>>).h = RInt(50)
        /\ EntryOf(<<8, 2>>).w = RInt(40) /\ EntryOf(<<8, 2>>).h = RInt(50)
        /\ EntryOf(<<8, 1>>).y = EntryOf(<<8, 2>>).y
        /\ EntryOf(<<8, 2>>).x = RAdd(EntryOf(<<8, 1>>).x, EntryOf(<<8, 1>>).w)


\* C12: the layout of one child of 990 and fifty of 0.2 in a rectangle 1000
\* wide, of any height, never draws one of the fifty as a rectangle of its
\* own: they are in at most one pooled "Small Files" rectangle, or in none.
C12_TinyChildrenPooled ==
    (call.op = "layout_treemap" /\ tree = OneBigFiftyTiny) =>
        /\ \A i \in 1..Len(scene.out) :
              scene.out[i].drawn => scene.out[i].path \in {<<9, 1>>, SmallFiles}
        /\ Cardinality({i \in 1..Len(scene.out) :
                           scene.out[i].path = SmallFiles}) <= 1


\* C13: a layout of a directory whose children's sizes sum to 0 gives no
\* child a rectangle and raises no error, in both programs.
C13_ZeroTotalSkipped ==
    call.op # "none" =>
        /\ ~scene.raised
        /\ \A d \in Parents(tree) :
              SumSeq(Sizes(Node(tree, d).children)) = 0 => Entries(d) = {}


\* The nodes of the tree t.
RECURSIVE Nodes(_)
Nodes(t) == {t} \cup UNION {Nodes(t.children[i]) : i \in 1..Len(t.children)}

\* C14: after calculate_percentages every node of the tree has a percentage
\* from 0 to 100, which is its size as a percentage of the root's size, not
\* of its parent's: 0 everywhere when the root's size is 0, and 100 at the
\* root otherwise.
C14_PercentageOfRoot ==
    last = "scan_selected_directory" =>
        /\ \A n \in Nodes(v2_root) :
              /\ RLe(RInt(0), n.percentage) /\ RLe(n.percentage, RInt(100))
              /\ v2_root.size = 0 => n.percentage = RInt(0)
              /\ v2_root.size > 0 =>
                    n.percentage = Rat(n.size * 100, v2_root.size)
        /\ v2_root.size > 0 => v2_root.percentage = RInt(100)

\* The scan of DirA: DirC, two levels down, holds 5 of the 135 bytes and its
\* file all 5 of them.
C14_Witness ==
    /\ last = "scan_selected_directory"
    /\ v2_root.path = DirA
    /\ \E n \in Nodes(v2_root) :
          /\ n.path = FileC1
          /\ RLt(RInt(0), n.percentage) /\ RLt(n.percentage, RInt(100))

\* The scan of a directory of one empty file.
C14_WitnessZero ==
    /\ last = "scan_selected_directory"
    /\ v2_root.path = DirZ /\ v2_root.children # <<>>
    /\ v2_root.percentage = RInt(0)


\* The place of the child of path p in the children of the directory d.
PlaceIn(d, p) ==
    CHOOSE k \in 1..Len(Node(tree, d).children) : Node(tree, d).children[k].path = p

\* C15: at every level of draw_graph's layout the children of a directory
\* are processed in descending order of size, equal sizes in scan order:
\* of two children given rectangles of their own, the one drawn first is
\* the larger, or as large and earlier in the children list.
C15_SortedAtEveryLevel ==
    call.op = "draw_graph" =>
        \A i, j \in 1..Len(scene.out) :
            (/\ i < j
             /\ scene.out[i].of = scene.out[j].of
             /\ scene.out[i].path # SmallFiles
             /\ scene.out[j].path # SmallFiles) =>
                \/ scene.out[i].size > scene.out[j].size
                \/ /\ scene.out[i].size = scene.out[j].size
                   /\ PlaceIn(scene.out[i].of, scene.out[i].path)
                          < PlaceIn(scene.out[j].of, scene.out[j].path)


\* max(w / h, h / w) of a rectangle.
Aspect(e) == RMax(RDiv(e.w, e.h), RDiv(e.h, e.w))

\* worst_ratio as layout_treemap calls it for the first m members of a row.
RatioOfPrefix(members, m) ==
    worst_ratio(SubSeq(members, 1, m), call.within.w, call.within.h,
                SumSeq(Sizes(Node(tree, call.of).children)))

\* C16: the value worst_ratio gave for a row is the greatest max(w/h, h/w)
\* of the rectangles layout_row gives to the row's members of non-zero size
\* (stated for the rows whose such members all get a rectangle of their
\* own); and a row is closed before a member exactly when appending it
\* would make the value strictly larger.
C16_WorstRatioIsActual ==
    call.op \in {"draw_graph", "layout_treemap"} =>
        \A k \in 1..Len(rows) :
            LET members == rows[k].members
                counted == {i \in 1..Len(members) : members[i].size > 0}
                Has(i) == \E e \in 1..Len(scene.out) :
                              /\ scene.out[e].of = call.of
                              /\ scene.out[e].path = members[i].path
            IN /\ (counted # {} /\ \A i \in counted : Has(i)) =>
                      rows[k].ratio =
                          RMaxOf({Aspect(EntryOf(members[i].path)) : i \in counted})
               /\ \A m \in 2..Len(members) :
                      ~RatioGt(RatioOfPrefix(members, m), RatioOfPrefix(members, m - 1))
               /\ k < Len(rows) =>
                      RatioGt(RatioOfPrefix(Append(members, rows[k + 1].members[1]),
                                            Len(members) + 1),
                              rows[k].ratio)


\* C17: the finishing step has run at most once for each scan start_scan
\* started, and at most one chain of process_scan_queue callbacks is alive:
\* one scheduled with after(), or one suspended in update().
C17_OneChainOneFinish ==
    /\ finishes <= scans
    /\ timers + Len(stack) <= 1

=============================================================================
